---- MODULE Spec2Model ----
(***************************************************************************)
(* Model of train.py of MNIST_Classification_Pytorch: the entry point,     *)
(* the epoch driver train(), train_step(), test_step() and the module      *)
(* global BEST_ACC.                                                        *)
(*                                                                         *)
(* Floats are modelled as exact rationals <<numerator, denominator>> in    *)
(* lowest terms.  The model's parameters are abstracted by what they do on *)
(* the test loader in evaluation mode: params[i] is the number of samples  *)
(* of test batch i whose arg-max class equals the label.  The scalar loss  *)
(* of a batch is abstracted by the number of misclassified samples.        *)
(***************************************************************************)
EXTENDS Integers, Sequences, FiniteSets, TLC

(* ---------------------------- bounds ---------------------------------- *)
NUM_EPOCHS == 2
MaxCalls == 2
MaxEvalRuns == 2
BigBatch == 3000000

(* ---------------------------- state ----------------------------------- *)
VARIABLES
  pc,               \* position of the single control thread
  CONTINUE_TRAIN,   \* setting.CONTINUE_TRAIN
  PTH_FILE,         \* what torch.load/load_state_dict finds at setting.PTH_FILE
  test_dataloader,  \* batch sizes of dataset.get_test_data_loader(), in order
  params,           \* model parameters (state_dict)
  training,         \* model.training, set by model.train() / model.eval()
  optSteps,         \* optimizer state: number of optimizer.step() calls
  BEST_ACC,         \* module global watermark
  files,            \* checkpoint files in PTH_SAVE_DIR: name -> saved state_dict
  calls,            \* number of invocations of train() so far
  epoch,            \* loop variable of train()
  batch_idx,        \* loop variable of train_step / test_step
  run_loss,         \* accumulator train_loss / test_loss inside a step
  run_acc,          \* accumulator train_acc / test_acc inside a step
  batch_acc,        \* the per-batch fraction added last (lines 42, 77)
  train_loss, train_acc, test_loss, test_acc,   \* locals of train()
  results,          \* the results dictionary of train()
  \* ---- history variables (observations, not program state) ----
  writes,           \* per epoch of this invocation: number of torch.save calls
  saveLog,          \* accuracies of all torch.save calls of the process, in order
  wm0,              \* BEST_ACC when the current invocation of train() started
  prior_max,        \* largest test accuracy of all epochs of earlier invocations
  seen_max,         \* largest test accuracy of all completed epochs so far
  events,           \* events of the current epoch, in order of completion
  wm_updates,       \* number of changes of BEST_ACC in the current epoch
  trained,          \* params left by the current epoch's train step
  scored,           \* params the current epoch's evaluate step ran forward on
  loaded,           \* load_state_dict has completed
  evalRuns,         \* completed runs of test_step before the current one
  prev_eval         \* (loss, accuracy) returned by the previous test_step run

vars == <<pc, CONTINUE_TRAIN, PTH_FILE, test_dataloader, params, training,
          optSteps, BEST_ACC, files, calls, epoch, batch_idx, run_loss,
          run_acc, batch_acc, train_loss, train_acc, test_loss, test_acc,
          results, writes, saveLog, wm0, prior_max, seen_max, events,
          wm_updates, trained, scored, loaded, evalRuns, prev_eval>>

(* ------------------------ float arithmetic ---------------------------- *)
RECURSIVE GCD(_, _)
GCD(a, b) == IF b = 0 THEN a ELSE GCD(b, a % b)

Rat(n, d) == LET g == GCD(n, d) IN <<n \div g, d \div g>>

Zero == <<0, 1>>

RatAdd(a, b) ==
  LET g == GCD(a[2], b[2])
  IN  Rat(a[1] * (b[2] \div g) + b[1] * (a[2] \div g), (a[2] \div g) * b[2])

RatDivInt(a, k) == Rat(a[1], a[2] * k)

RatLT(a, b) == a[1] * b[2] < b[1] * a[2]

RatLE(a, b) == a[1] * b[2] <= b[1] * a[2]

RatMax(a, b) == IF RatLT(a, b) THEN b ELSE a

\* round(n/d) to the nearest integer, exact ties to the even neighbour
RoundHalfEven(n, d) ==
  LET q == n \div d
      r == n % d
  IN  IF 2 * r > d THEN q + 1
      ELSE IF 2 * r < d THEN q
      ELSE IF q % 2 = 0 THEN q ELSE q + 1

\* f'{test_acc*100:.4f}': the digits of the file name, as the number of
\* 0.0001% units printed ("50.0000" is 500000)
FormatPct(acc) == RoundHalfEven(acc[1] * 1000000, acc[2])

(* ------------------------ inputs -------------------------------------- *)
TrainLoader == <<1, 1>>

TestLoaders == {<<2>>, <<1, 1>>, <<BigBatch>>}

\* number of correctly predicted samples a batch of size s can have
CorrectChoices(s) == IF s <= 2 THEN 0..s ELSE {0, 2, 3, s}

Params(ld) ==
  {p \in [1..Len(ld) -> UNION {CorrectChoices(ld[i]) : i \in 1..Len(ld)}] :
      \A i \in 1..Len(ld) : p[i] \in CorrectChoices(ld[i])}

\* model(image): the possible numbers of correct arg-max predictions on a
\* batch.  In evaluation mode the forward pass is a function of the
\* parameters; in training mode dropout makes it depend on random masks.
Forward(p, mode, i, s) == IF mode THEN CorrectChoices(s) ELSE {p[i]}

\* mutant: the count of correct predictions is not divided by the batch size
BatchFraction_NoDivide(c, s) == Rat(c, 1)

\* (pred_class == label).sum().item() / len(pred_label)
BatchFraction(c, s) == Rat(c, s)

\* loss_function(pred_label, label).item()
BatchLoss(c, s) == <<s - c, 1>>

EmptyResults ==
  [train_loss |-> <<>>, train_acc |-> <<>>, test_loss |-> <<>>, test_acc |-> <<>>]

NoFiles == [n \in {} |-> <<>>]

(* ------------------------ entry point --------------------------------- *)
Init ==
  /\ pc = "main"
  /\ CONTINUE_TRAIN \in BOOLEAN
  /\ PTH_FILE \in IF CONTINUE_TRAIN THEN {"ok", "missing", "mismatch"}
                               ELSE {"unset"}
  /\ test_dataloader \in TestLoaders
  /\ params \in Params(test_dataloader)
  /\ loaded = FALSE
  /\ training = TRUE
  /\ optSteps = 0
  /\ BEST_ACC = Zero
  /\ files = NoFiles
  /\ calls = 0
  /\ epoch = 0
  /\ batch_idx = 0
  /\ run_loss = Zero /\ run_acc = Zero /\ batch_acc = Zero
  /\ train_loss = Zero /\ train_acc = Zero
  /\ test_loss = Zero /\ test_acc = Zero
  /\ results = EmptyResults
  /\ writes = <<>>
  /\ saveLog = <<>>
  /\ wm0 = Zero /\ prior_max = Zero /\ seen_max = Zero
  /\ events = <<>>
  /\ wm_updates = 0
  /\ trained = params /\ scored = params
  /\ evalRuns = 0
  /\ prev_eval = <<Zero, Zero>>

\* mutant: a failed load is swallowed and training starts anyway
LoadCheckpoint_Swallowed ==
  /\ pc = "main"
  /\ CONTINUE_TRAIN
  /\ IF PTH_FILE = "ok"
       THEN /\ params' \in Params(test_dataloader)
            /\ loaded' = TRUE
       ELSE /\ params' = params
            /\ loaded' = FALSE
  /\ pc' = "call"
  /\ UNCHANGED <<CONTINUE_TRAIN, PTH_FILE, test_dataloader, training,
                 optSteps, BEST_ACC, files, calls, epoch, batch_idx, run_loss,
                 run_acc, batch_acc, train_loss, train_acc, test_loss,
                 test_acc, results, writes, saveLog, wm0, prior_max, seen_max,
                 events, wm_updates, trained, scored, evalRuns, prev_eval>>

\* lines 135-138: my_model.load_state_dict(torch.load(setting.PTH_FILE))
LoadCheckpoint ==
  /\ pc = "main"
  /\ CONTINUE_TRAIN
  /\ IF PTH_FILE = "ok"
       THEN /\ params' \in Params(test_dataloader)
            /\ loaded' = TRUE
            /\ pc' = "call"
       ELSE /\ params' = params
            /\ loaded' = FALSE
            /\ pc' = "aborted"
  /\ UNCHANGED <<CONTINUE_TRAIN, PTH_FILE, test_dataloader, training,
                 optSteps, BEST_ACC, files, calls, epoch, batch_idx, run_loss,
                 run_acc, batch_acc, train_loss, train_acc, test_loss,
                 test_acc, results, writes, saveLog, wm0, prior_max, seen_max,
                 events, wm_updates, trained, scored, evalRuns, prev_eval>>

\* line 135, flag not set: straight to the call of train()
SkipLoad ==
  /\ pc = "main"
  /\ ~CONTINUE_TRAIN
  /\ pc' = "call"
  /\ UNCHANGED <<CONTINUE_TRAIN, PTH_FILE, test_dataloader, params, training,
                 optSteps, BEST_ACC, files, calls, epoch, batch_idx, run_loss,
                 run_acc, batch_acc, train_loss, train_acc, test_loss,
                 test_acc, results, writes, saveLog, wm0, prior_max, seen_max,
                 events, wm_updates, trained, scored, loaded, evalRuns,
                 prev_eval>>

(* ------------------------ train() -------------------------------------- *)
settings == <<CONTINUE_TRAIN, PTH_FILE, test_dataloader, loaded>>

evalHist == <<evalRuns, prev_eval>>

\* mutant: the watermark is reset at every call of train()
TrainEnter_ResetsWatermark ==
  /\ pc = "call"
  /\ calls' = calls + 1
  /\ results' = EmptyResults
  /\ BEST_ACC' = Zero
  /\ wm0' = BEST_ACC'
  /\ prior_max' = seen_max
  /\ writes' = <<>>
  /\ IF NUM_EPOCHS >= 1
       THEN epoch' = 1 /\ pc' = "train_step"
       ELSE epoch' = epoch /\ pc' = "returned"
  /\ UNCHANGED <<settings, evalHist, params, training, optSteps, files,
                 batch_idx, run_loss, run_acc, batch_acc, train_loss,
                 train_acc, test_loss, test_acc, saveLog, seen_max, events,
                 wm_updates, trained, scored>>

\* lines 100-107: a call of train() starts; results is a fresh dictionary,
\* BEST_ACC is the module global and is left as it is
TrainEnter ==
  /\ pc = "call"
  /\ calls' = calls + 1
  /\ results' = EmptyResults
  /\ BEST_ACC' = BEST_ACC
  /\ wm0' = BEST_ACC'
  /\ prior_max' = seen_max
  /\ writes' = <<>>
  /\ IF NUM_EPOCHS >= 1
       THEN epoch' = 1 /\ pc' = "train_step"
       ELSE epoch' = epoch /\ pc' = "returned"
  /\ UNCHANGED <<settings, evalHist, params, training, optSteps, files,
                 batch_idx, run_loss, run_acc, batch_acc, train_loss,
                 train_acc, test_loss, test_acc, saveLog, seen_max, events,
                 wm_updates, trained, scored>>

(* ------------------------ train_step() --------------------------------- *)
\* lines 26-29: model.train(); train_loss, train_acc = 0.0, 0.0
TrainStepBegin ==
  /\ pc = "train_step"
  /\ training' = TRUE
  /\ run_loss' = Zero /\ run_acc' = Zero /\ batch_acc' = Zero
  /\ batch_idx' = 0
  /\ events' = <<>>
  /\ wm_updates' = 0
  /\ pc' = "train_batch"
  /\ UNCHANGED <<settings, evalHist, params, optSteps, BEST_ACC, files, calls,
                 epoch, train_loss, train_acc, test_loss, test_acc, results,
                 writes, saveLog, wm0, prior_max, seen_max, trained, scored>>

\* lines 31-45: one batch: forward, loss, zero_grad, backward, step, accuracy
TrainBatch ==
  /\ pc = "train_batch"
  /\ batch_idx < Len(TrainLoader)
  /\ LET i == batch_idx + 1
         s == TrainLoader[i]
     IN  \E c \in Forward(params, training, i, s) :
           /\ run_loss' = RatAdd(run_loss, BatchLoss(c, s))
           /\ params' \in Params(test_dataloader)
           /\ optSteps' = optSteps + 1
           /\ batch_acc' = BatchFraction(c, s)
           /\ run_acc' = RatAdd(run_acc, batch_acc')
           /\ batch_idx' = i
  /\ UNCHANGED <<settings, evalHist, pc, training, BEST_ACC, files, calls,
                 epoch, train_loss, train_acc, test_loss, test_acc, results,
                 writes, saveLog, wm0, prior_max, seen_max, events,
                 wm_updates, trained, scored>>

\* the sum of a step's per-batch values divided by len(dataloader)
EpochMean(sum, ld) == RatDivInt(sum, Len(ld))

\* lines 47-50 and 108: the averages are returned to train()
TrainStepEnd ==
  /\ pc = "train_batch"
  /\ batch_idx = Len(TrainLoader)
  /\ train_loss' = EpochMean(run_loss, TrainLoader)
  /\ train_acc' = EpochMean(run_acc, TrainLoader)
  /\ trained' = params
  /\ events' = Append(events, "train")
  /\ pc' = "test_step"
  /\ UNCHANGED <<settings, evalHist, params, training, optSteps, BEST_ACC,
                 files, calls, epoch, batch_idx, run_loss, run_acc, batch_acc,
                 test_loss, test_acc, results, writes, saveLog, wm0,
                 prior_max, seen_max, wm_updates, scored>>

(* ------------------------ test_step() ---------------------------------- *)
\* mutant: the accumulators are not reset at the start of the step
TestStepBegin_NoReset ==
  /\ pc = "test_step"
  /\ training' = FALSE
  /\ batch_acc' = Zero
  /\ batch_idx' = 0
  /\ pc' = "test_batch"
  /\ UNCHANGED <<settings, evalHist, params, optSteps, BEST_ACC, files, calls,
                 epoch, run_loss, run_acc, train_loss, train_acc, test_loss,
                 test_acc, results, writes, saveLog, wm0, prior_max, seen_max,
                 events, wm_updates, trained, scored>>

\* lines 63-68: model.eval(); test_loss, test_acc = 0.0, 0.0
TestStepBegin ==
  /\ pc = "test_step"
  /\ training' = FALSE
  /\ run_loss' = Zero /\ run_acc' = Zero /\ batch_acc' = Zero
  /\ batch_idx' = 0
  /\ pc' = "test_batch"
  /\ UNCHANGED <<settings, evalHist, params, optSteps, BEST_ACC, files, calls,
                 epoch, train_loss, train_acc, test_loss, test_acc, results,
                 writes, saveLog, wm0, prior_max, seen_max, events,
                 wm_updates, trained, scored>>

\* mutant: the evaluate step takes an optimizer step on every batch
TestBatch_WithOptimizerStep ==
  /\ pc = "test_batch"
  /\ batch_idx < Len(test_dataloader)
  /\ LET i == batch_idx + 1
         s == test_dataloader[i]
     IN  \E c \in Forward(params, training, i, s) :
           /\ run_loss' = RatAdd(run_loss, BatchLoss(c, s))
           /\ batch_acc' = BatchFraction(c, s)
           /\ run_acc' = RatAdd(run_acc, batch_acc')
           /\ batch_idx' = i
  /\ scored' = params
  /\ params' \in Params(test_dataloader)
  /\ optSteps' = optSteps + 1
  /\ UNCHANGED <<settings, evalHist, pc, training, BEST_ACC,
                 files, calls, epoch, train_loss, train_acc, test_loss,
                 test_acc, results, writes, saveLog, wm0, prior_max, seen_max,
                 events, wm_updates, trained>>

\* lines 69-80: one batch under inference_mode: forward, loss, accuracy
TestBatch ==
  /\ pc = "test_batch"
  /\ batch_idx < Len(test_dataloader)
  /\ LET i == batch_idx + 1
         s == test_dataloader[i]
     IN  \E c \in Forward(params, training, i, s) :
           /\ run_loss' = RatAdd(run_loss, BatchLoss(c, s))
           /\ batch_acc' = BatchFraction(c, s)
           /\ run_acc' = RatAdd(run_acc, batch_acc')
           /\ batch_idx' = i
  /\ scored' = params
  /\ UNCHANGED <<settings, evalHist, pc, params, training, optSteps, BEST_ACC,
                 files, calls, epoch, train_loss, train_acc, test_loss,
                 test_acc, results, writes, saveLog, wm0, prior_max, seen_max,
                 events, wm_updates, trained>>

\* lines 82-85 and 110: the averages are returned to the caller
TestStepEnd ==
  /\ pc = "test_batch"
  /\ batch_idx = Len(test_dataloader)
  /\ test_loss' = EpochMean(run_loss, test_dataloader)
  /\ test_acc' = EpochMean(run_acc, test_dataloader)
  /\ events' = Append(events, "eval")
  /\ pc' = "decide"
  /\ UNCHANGED <<settings, evalHist, params, training, optSteps, BEST_ACC,
                 files, calls, epoch, batch_idx, run_loss, run_acc, batch_acc,
                 train_loss, train_acc, results, writes, saveLog, wm0,
                 prior_max, seen_max, wm_updates, trained, scored>>

(* ------------------------ checkpoint and history ----------------------- *)
\* torch.save(model.state_dict(), f'.../checkpoint_{test_acc*100:.4f}%.pth')
SaveFile(fs, name, sd) ==
  [n \in (DOMAIN fs) \cup {name} |-> IF n = name THEN sd ELSE fs[n]]

\* lines 113-116 with the test of line 114, the assignment of line 115 and
\* the file system left by line 116 as parameters
CheckpointStep(improved, best, fs) ==
  /\ pc = "decide"
  /\ IF improved
       THEN /\ BEST_ACC' = best
            /\ files' = fs
            /\ saveLog' = Append(saveLog, test_acc)
            /\ writes' = Append(writes, 1)
            /\ wm_updates' = wm_updates + 1
       ELSE /\ UNCHANGED <<BEST_ACC, files, saveLog, wm_updates>>
            /\ writes' = Append(writes, 0)
  /\ events' = Append(events, "decide")
  /\ pc' = "append"
  /\ UNCHANGED <<settings, evalHist, params, training, optSteps, calls, epoch,
                 batch_idx, run_loss, run_acc, batch_acc, train_loss,
                 train_acc, test_loss, test_acc, results, wm0, prior_max,
                 seen_max, trained, scored>>

\* mutant: >= in place of >, a tie writes a checkpoint
Checkpoint_TieWrites ==
  CheckpointStep(RatLE(BEST_ACC, test_acc), test_acc,
                 SaveFile(files, FormatPct(test_acc), params))

\* mutant: the checkpoint is written but BEST_ACC is not assigned
Checkpoint_NoWatermarkUpdate ==
  CheckpointStep(RatLT(BEST_ACC, test_acc), BEST_ACC,
                 SaveFile(files, FormatPct(test_acc), params))

\* mutant: older checkpoints are removed when a better one is written
Checkpoint_Prunes ==
  CheckpointStep(RatLT(BEST_ACC, test_acc), test_acc,
                 SaveFile(NoFiles, FormatPct(test_acc), params))

\* mutant: the test of line 114 is missing
Checkpoint_Unconditional ==
  CheckpointStep(TRUE, test_acc,
                 SaveFile(files, FormatPct(test_acc), params))

\* lines 113-116
Checkpoint ==
  CheckpointStep(RatLT(BEST_ACC, test_acc), test_acc,
                 SaveFile(files, FormatPct(test_acc), params))

\* mutant: results["test_loss"] is not appended
AppendResults_SkipsTestLoss ==
  /\ pc = "append"
  /\ results' = [train_loss |-> Append(results.train_loss, train_loss),
                 train_acc  |-> Append(results.train_acc, train_acc),
                 test_loss  |-> results.test_loss,
                 test_acc   |-> Append(results.test_acc, test_acc)]
  /\ seen_max' = RatMax(seen_max, test_acc)
  /\ events' = Append(events, "append")
  /\ IF epoch < NUM_EPOCHS
       THEN epoch' = epoch + 1 /\ pc' = "train_step"
       ELSE epoch' = epoch /\ pc' = "returned"
  /\ UNCHANGED <<settings, evalHist, params, training, optSteps, BEST_ACC,
                 files, calls, batch_idx, run_loss, run_acc, batch_acc,
                 train_loss, train_acc, test_loss, test_acc, writes, saveLog,
                 wm0, prior_max, wm_updates, trained, scored>>

\* lines 118-122, then the loop header of line 107 or the return of line 125
AppendResults ==
  /\ pc = "append"
  /\ results' = [train_loss |-> Append(results.train_loss, train_loss),
                 train_acc  |-> Append(results.train_acc, train_acc),
                 test_loss  |-> Append(results.test_loss, test_loss),
                 test_acc   |-> Append(results.test_acc, test_acc)]
  /\ seen_max' = RatMax(seen_max, test_acc)
  /\ events' = Append(events, "append")
  /\ IF epoch < NUM_EPOCHS
       THEN epoch' = epoch + 1 /\ pc' = "train_step"
       ELSE epoch' = epoch /\ pc' = "returned"
  /\ UNCHANGED <<settings, evalHist, params, training, optSteps, BEST_ACC,
                 files, calls, batch_idx, run_loss, run_acc, batch_acc,
                 train_loss, train_acc, test_loss, test_acc, writes, saveLog,
                 wm0, prior_max, wm_updates, trained, scored>>

\* line 147: plot_curves.plot_curves(model_results); the process ends
PlotCurves ==
  /\ pc = "returned"
  /\ pc' = "plotted"
  /\ UNCHANGED <<settings, evalHist, params, training, optSteps, BEST_ACC,
                 files, calls, epoch, batch_idx, run_loss, run_acc, batch_acc,
                 train_loss, train_acc, test_loss, test_acc, results, writes,
                 saveLog, wm0, prior_max, seen_max, events, wm_updates,
                 trained, scored>>

\* train() is a module-level function: a caller in the same process may
\* call it again after it has returned
CallTrainAgain ==
  /\ pc = "returned"
  /\ calls < MaxCalls
  /\ pc' = "call"
  /\ UNCHANGED <<settings, evalHist, params, training, optSteps, BEST_ACC,
                 files, calls, epoch, batch_idx, run_loss, run_acc, batch_acc,
                 train_loss, train_acc, test_loss, test_acc, results, writes,
                 saveLog, wm0, prior_max, seen_max, events, wm_updates,
                 trained, scored>>

Next ==
  \/ LoadCheckpoint
  \/ SkipLoad
  \/ TrainEnter
  \/ TrainStepBegin
  \/ TrainBatch
  \/ TrainStepEnd
  \/ TestStepBegin
  \/ TestBatch
  \/ TestStepEnd
  \/ Checkpoint
  \/ AppendResults
  \/ PlotCurves
  \/ CallTrainAgain

Spec == Init /\ [][Next]_vars

(* ------------- test_step() called twice on the same model -------------- *)
InitEval ==
  /\ pc = "test_step"
  /\ CONTINUE_TRAIN = FALSE
  /\ PTH_FILE = "unset"
  /\ test_dataloader \in TestLoaders
  /\ params \in Params(test_dataloader)
  /\ loaded = FALSE
  /\ training \in BOOLEAN
  /\ optSteps = 0
  /\ BEST_ACC = Zero
  /\ files = NoFiles
  /\ calls = 0
  /\ epoch = 1
  /\ batch_idx = 0
  /\ run_loss = Zero /\ run_acc = Zero /\ batch_acc = Zero
  /\ train_loss = Zero /\ train_acc = Zero
  /\ test_loss = Zero /\ test_acc = Zero
  /\ results = EmptyResults
  /\ writes = <<>>
  /\ saveLog = <<>>
  /\ wm0 = Zero /\ prior_max = Zero /\ seen_max = Zero
  /\ events = <<>>
  /\ wm_updates = 0
  /\ trained = params /\ scored = params
  /\ evalRuns = 0
  /\ prev_eval = <<Zero, Zero>>

\* the caller keeps the returned pair and calls test_step again with the
\* same model and the same dataloader
EvalAgain ==
  /\ pc = "decide"
  /\ evalRuns < MaxEvalRuns
  /\ prev_eval' = <<test_loss, test_acc>>
  /\ evalRuns' = evalRuns + 1
  /\ pc' = "test_step"
  /\ UNCHANGED <<settings, params, training, optSteps, BEST_ACC, files, calls,
                 epoch, batch_idx, run_loss, run_acc, batch_acc, train_loss,
                 train_acc, test_loss, test_acc, results, writes, saveLog,
                 wm0, prior_max, seen_max, events, wm_updates, trained,
                 scored>>

NextEval ==
  \/ TestStepBegin
  \/ TestBatch
  \/ TestStepEnd
  \/ EvalAgain

SpecEval == InitEval /\ [][NextEval]_vars

(* ======================== properties =================================== *)
One == <<1, 1>>

RECURSIVE MaxSeq(_)
MaxSeq(q) == IF Len(q) = 1 THEN q[1] ELSE RatMax(q[1], MaxSeq(Tail(q)))

InDriver == pc \in {"train_step", "train_batch", "test_step", "test_batch",
                    "decide", "append", "returned", "plotted"}

\* the test accuracy of epoch e of the current invocation, for every epoch
\* whose checkpoint decision has been taken
AccOf(e) == IF e <= Len(results.test_acc) THEN results.test_acc[e] ELSE test_acc

Improves(e) == \A k \in 1..(e - 1) : RatLT(results.test_acc[k], results.test_acc[e])

\* C1 as stated: an epoch writes one checkpoint if its test accuracy strictly
\* exceeds that of every previous epoch of the run, and none otherwise.
C1_Original ==
  \A e \in 1..Len(results.test_acc) :
     writes[e] = IF Improves(e) THEN 1 ELSE 0

\* C1 amended: an epoch writes exactly one checkpoint if its test accuracy
\* strictly exceeds the watermark, that is, both the value BEST_ACC had when
\* train() was entered (0 in the first invocation) and the test accuracy of
\* every previous epoch of the run; every other epoch (a tie included, and an
\* accuracy of 0 in the first epoch) writes none.
C1_WriteIffAboveWatermark ==
  \A e \in 1..Len(results.test_acc) :
     writes[e] = IF RatLT(wm0, results.test_acc[e]) /\ Improves(e) THEN 1 ELSE 0

C1_Witness ==
  /\ Len(results.test_acc) >= 2
  /\ writes[1] = 1
  /\ results.test_acc[2] = results.test_acc[1]
  /\ writes[2] = 0

\* C2 as stated: when train() has returned, BEST_ACC is the maximum of
\* results["test_acc"] and a checkpoint file named by that maximum exists.
C2_Original ==
  pc = "returned" =>
    /\ BEST_ACC = MaxSeq(results.test_acc)
    /\ FormatPct(MaxSeq(results.test_acc)) \in DOMAIN files

\* C2 amended: when train() has returned, BEST_ACC is the larger of its value
\* at entry and the maximum of results["test_acc"] (in the first invocation:
\* that maximum), and unless BEST_ACC is 0 a checkpoint file exists whose name
\* encodes BEST_ACC*100 to 4 decimals.
C2_WatermarkIsMax ==
  pc = "returned" =>
    /\ BEST_ACC = RatMax(wm0, MaxSeq(results.test_acc))
    /\ calls = 1 => BEST_ACC = MaxSeq(results.test_acc)
    /\ RatLT(Zero, BEST_ACC) => FormatPct(BEST_ACC) \in DOMAIN files
    /\ BEST_ACC = Zero => files = NoFiles

C2_Witness ==
  /\ pc = "returned"
  /\ calls = 1
  /\ RatLT(results.test_acc[Len(results.test_acc)], results.test_acc[1])
  /\ BEST_ACC = results.test_acc[1]

ResultLens ==
  {Len(results.train_loss), Len(results.train_acc),
   Len(results.test_loss), Len(results.test_acc)}

\* C3: the four lists of results always have the same length, all four grow
\* by one at the end of each epoch, and when train() has returned each has
\* length NUM_EPOCHS.
C3_ResultsInStep ==
  /\ [](/\ Cardinality(ResultLens) = 1
        /\ pc \in {"train_step", "train_batch", "test_step", "test_batch",
                   "decide", "append"} => ResultLens = {epoch - 1}
        /\ pc \in {"returned", "plotted"} => ResultLens = {NUM_EPOCHS})
  /\ [][\/ results' = results
        \/ results' = EmptyResults /\ pc = "call"
        \/ /\ pc = "append"
           /\ \A f \in DOMAIN results : Len(results'[f]) = Len(results[f]) + 1
           /\ \A f \in DOMAIN results :
                 SubSeq(results'[f], 1, Len(results[f])) = results[f]]_vars

C3_Witness ==
  /\ pc = "returned"
  /\ Len(results.train_loss) = NUM_EPOCHS
  /\ Len(results.test_acc) = NUM_EPOCHS

SavedNames == {FormatPct(saveLog[k]) : k \in 1..Len(saveLog)}

\* C4 as stated: any two checkpoint writes target distinct files, so the
\* number of checkpoint files equals the number of improvements.
C4_Original ==
  /\ \A j, k \in 1..Len(saveLog) :
        j # k => FormatPct(saveLog[j]) # FormatPct(saveLog[k])
  /\ Cardinality(DOMAIN files) = Len(saveLog)

\* C4 amended: each improvement writes the file named by its accuracy*100
\* formatted to 4 decimals and no write removes a file; two writes target
\* distinct files exactly when their formatted accuracies differ, so the
\* number of checkpoint files is the number of distinct formatted accuracies
\* among the improvements, at most the number of improvements (improvements
\* that format alike overwrite one file, which then holds the later one).
C4_OneFilePerFormattedAccuracy ==
  /\ [](/\ DOMAIN files = SavedNames
        /\ Cardinality(DOMAIN files) <= Len(saveLog)
        /\ \A j, k \in 1..Len(saveLog) : j < k => RatLT(saveLog[j], saveLog[k]))
  /\ [][DOMAIN files \subseteq DOMAIN files']_vars

C4_Witness ==
  /\ Len(saveLog) = 2
  /\ Cardinality(DOMAIN files) = 1

InUnit(a) == RatLE(Zero, a) /\ RatLE(a, One)

\* C5: every per-batch fraction is in [0, 1], and so is every accuracy a step
\* returns and every value of results["train_acc"] and results["test_acc"].
C5_AccuracyInUnitInterval ==
  /\ InUnit(batch_acc)
  /\ InUnit(train_acc)
  /\ InUnit(test_acc)
  /\ \A e \in 1..Len(results.train_acc) : InUnit(results.train_acc[e])
  /\ \A e \in 1..Len(results.test_acc) : InUnit(results.test_acc[e])

C5_Witness ==
  /\ Len(results.test_acc) >= 1
  /\ test_dataloader = <<2>>
  /\ results.test_acc[1] = One
  /\ results.train_acc[1] = <<1, 2>>

\* C6: with CONTINUE_TRAIN set the parameters are loaded before train() is
\* entered; a failed load ends the process before any epoch: no train step,
\* no evaluate step, no checkpoint write, no change of the watermark.
C6_LoadBeforeTraining ==
  /\ (CONTINUE_TRAIN /\ pc # "main" /\ pc # "aborted") => loaded
  /\ (CONTINUE_TRAIN /\ PTH_FILE # "ok") => pc \in {"main", "aborted"}
  /\ pc = "aborted" =>
       /\ CONTINUE_TRAIN /\ PTH_FILE # "ok" /\ ~loaded
       /\ calls = 0 /\ epoch = 0 /\ batch_idx = 0
       /\ optSteps = 0
       /\ events = <<>>
       /\ results = EmptyResults
       /\ files = NoFiles /\ saveLog = <<>>
       /\ BEST_ACC = Zero

C6_Witness == pc = "aborted" /\ PTH_FILE = "mismatch"

\* C7: a second run of test_step on the same model and the same dataloader
\* returns the same (loss, accuracy) pair as the first.
C7_EvalRepeatable ==
  (pc = "decide" /\ evalRuns >= 1) => <<test_loss, test_acc>> = prev_eval

C7_Witness ==
  /\ pc = "decide"
  /\ evalRuns = 1
  /\ Len(test_dataloader) = 2
  /\ test_acc = <<1, 2>>

EpochOrder == <<"train", "eval", "decide", "append">>

\* C8: within an epoch the train step, the evaluate step, the checkpoint
\* decision and the history append complete in this order; BEST_ACC never
\* decreases, changes at most once per epoch, and changes only at the
\* decision, after the evaluate step has scored the parameters the train
\* step of the same epoch left.
C8_EpochOrder ==
  /\ [](/\ Len(events) <= Len(EpochOrder)
        /\ events = SubSeq(EpochOrder, 1, Len(events))
        /\ wm_updates <= 1
        /\ pc = "test_step" => events = <<"train">>
        /\ pc = "decide" => events = <<"train", "eval">>
        /\ pc = "append" => events = <<"train", "eval", "decide">>
        /\ pc = "returned" => events = EpochOrder)
  /\ [][/\ RatLE(BEST_ACC, BEST_ACC')
        /\ BEST_ACC' # BEST_ACC =>
             /\ pc = "decide"
             /\ events = <<"train", "eval">>
             /\ scored = trained /\ params = trained
             /\ BEST_ACC' = test_acc
             /\ wm_updates' = 1]_vars

C8_Witness ==
  /\ pc = "returned"
  /\ epoch = 2
  /\ wm_updates = 1
  /\ Len(saveLog) = 2

LastWrite == Len(writes) > 0 /\ writes[Len(writes)] = 1

\* C9 as stated: test_step changes neither the parameters nor the optimizer
\* state, the parameters are changed only by the train step, and a checkpoint
\* holds the parameters the same epoch's evaluate step scored.
C9_Original ==
  /\ [][/\ pc \in {"test_step", "test_batch"} =>
             params' = params /\ optSteps' = optSteps
        /\ params' # params => pc = "train_batch"]_vars
  /\ []((pc = "append" /\ LastWrite) =>
          /\ scored = trained
          /\ files[FormatPct(test_acc)] = scored)

\* C9 amended: test_step changes neither the parameters nor the optimizer
\* state; the parameters are changed only by the train step and, before
\* train() is entered, by the load of the checkpoint when CONTINUE_TRAIN is
\* set; a checkpoint holds the parameters the same epoch's evaluate step
\* scored.
C9_EvalLeavesModelAlone ==
  /\ [][/\ pc \in {"test_step", "test_batch"} =>
             params' = params /\ optSteps' = optSteps
        /\ params' # params =>
             pc = "train_batch" \/ (pc = "main" /\ CONTINUE_TRAIN)]_vars
  /\ []((pc = "append" /\ LastWrite) =>
          /\ scored = trained
          /\ files[FormatPct(test_acc)] = scored)

C9_Witness == pc = "append" /\ LastWrite /\ loaded /\ epoch = 2

C10_Carry ==
  /\ calls >= 1 => wm0 = prior_max
  /\ calls = 1 => wm0 = Zero
  /\ \A e \in 1..Len(writes) : writes[e] = 1 => RatLT(prior_max, AccOf(e))
  /\ pc \in {"returned", "call"} => BEST_ACC = seen_max

\* C10 as stated: a later invocation of train() starts from the watermark the
\* earlier ones left and writes a checkpoint only for a test accuracy above
\* the best of all earlier invocations; the watermark at the start of train()
\* is 0 only for the first invocation.
C10_Original ==
  /\ C10_Carry
  /\ (calls >= 1 /\ wm0 = Zero) => calls = 1

\* C10 amended: a later invocation of train() starts from the watermark the
\* earlier ones left and writes a checkpoint only for a test accuracy above
\* the best of all earlier invocations; the watermark at the start of train()
\* is 0 for the first invocation, and for a later one it is 0 only if no
\* epoch of an earlier invocation had a test accuracy above 0.
C10_WatermarkSurvivesCalls ==
  /\ C10_Carry
  /\ (calls >= 2 /\ wm0 = Zero) => prior_max = Zero

C10_Witness ==
  /\ calls = 2
  /\ pc = "returned"
  /\ RatLT(Zero, wm0)
  /\ \E e \in 1..Len(writes) : writes[e] = 1
  /\ \E e \in 1..Len(writes) : writes[e] = 0 /\ RatLT(Zero, AccOf(e))

====
